---- MODULE Spec2Model ----
(***************************************************************************)
(* SyntheticRegressionData and its two minibatch loaders.                  *)
(*                                                                         *)
(* The dataset owns the arrays X and y and the hyperparameters saved by    *)
(* save_hyperparameters().  get_dataloader is registered on the class      *)
(* twice: first a Python generator that shuffles a list of indices and     *)
(* slices it, then a version that hands the sliced tensors to              *)
(* tf.data (shuffle(buffer_size).batch(batch_size)).                       *)
(*                                                                         *)
(* Array rows are numbered from 0 as in the source; TLA+ sequences are     *)
(* numbered from 1, so row r of an array A is A[r + 1].                    *)
(***************************************************************************)
EXTENDS Integers, Sequences, FiniteSets, TLC

\* Bounds of the model.
MaxTrain == 3
MaxVal == 2
MaxBatch == 3

\* Two loader handles are alive at a time (a handle is the variable a caller
\* binds the result of get_dataloader to).
Loaders == {"p", "q"}

VARIABLES
    w, b, noise,            \* hyperparameters of the generating model
    num_train, num_val,     \* the split
    batch_size,
    X, y,                   \* the dataset arrays
    registered,             \* which get_dataloader the class holds
    loader,                 \* handle -> loader object
    ns,                     \* the names bound in read-write.ipynb
    files,                  \* file name -> what np.save wrote
    nb,                     \* the names bound in the layer notebooks
    data2                   \* a second dataset object, constructed later

vars == <<w, b, noise, num_train, num_val, batch_size, X, y, registered, loader,
          data2, ns, files, nb>>
data == <<w, b, noise, num_train, num_val, batch_size, X, y>>

\* What lies outside the first dataset, its class and its loaders
rest == <<data2, ns, files, nb>>

----------------------------------------------------------------------------
\* Arithmetic and list helpers

Min(a, c) == IF a < c THEN a ELSE c
Max(a, c) == IF a > c THEN a ELSE c

\* ceil(a / d) for d >= 1
CeilDiv(a, d) == (a + d - 1) \div d

\* list(range(lo, hi))
Range(lo, hi) == [k \in 1..(IF hi > lo THEN hi - lo ELSE 0) |-> lo + k - 1]

\* s[lo: hi] for 0 <= lo, with hi clipped to len(s)
Slice(s, lo, hi) ==
    LET h == Min(hi, Len(s))
    IN  IF h > lo THEN SubSeq(s, lo + 1, h) ELSE <<>>

\* s[lo:] and s[slice(lo, None)]
SliceFrom(s, lo) == Slice(s, lo, Len(s))

\* A[batch_indices]: the rows of A at the given (0-based) indices, in order
Take(A, idx) == [k \in 1..Len(idx) |-> A[idx[k] + 1]]

\* The rearrangements of n positions, for every list length of the model
Rearrangements ==
    [n \in 0..(MaxTrain + MaxVal) |->
        IF n > Max(MaxTrain, MaxVal) THEN {}
        ELSE {f \in [1..n -> 1..n] : \A i, j \in 1..n : i # j => f[i] # f[j]}]

\* All orderings of the list s
Orderings(s) == {[k \in 1..Len(s) |-> s[f[k]]] : f \in Rearrangements[Len(s)]}

RECURSIVE Dot(_, _)
Dot(u, v) == IF Len(u) = 0 THEN 0 ELSE Head(u) * Head(v) + Dot(Tail(u), Tail(v))

----------------------------------------------------------------------------
\* SyntheticRegressionData.__init__

\* jax.random.PRNGKey(0)
PRNGKey == 0

\* jax.random.split(key): two keys derived from key
split(key) == <<2 * key + 1, 2 * key + 2>>

\* jax.random.normal(key, shape)[i][j]: a fixed function of the key and the
\* position (integers stand for the reals); the rows drawn for different
\* examples differ, and so do their labels, as real draws do
normal(key, i, j) == ((key + i + 3 * j + 2 * i * j) % 11) - 5

Ws == {<<2, -3>>}
Bs == {4}
Noises == {1}
BatchSizes == {0 - 1, 0} \cup (1..MaxBatch)

\* Variants of gen_X: one row is missing; the feature width is fixed at 1
gen_X_short(n, d) ==
    [i \in 1..(IF n > 0 THEN n - 1 ELSE 0) |->
        [j \in 1..d |-> normal(split(PRNGKey)[1], i, j)]]
gen_X_width1(n, d) == [i \in 1..n |-> [j \in 1..1 |-> normal(split(PRNGKey)[1], i, j)]]

gen_X(n, d) == [i \in 1..n |-> [j \in 1..d |-> normal(split(PRNGKey)[1], i, j)]]

\* Variant of gen_y: the noise level is added to the draw, not multiplied
gen_y_added(XX, ww, bb, nz) ==
    [i \in 1..Len(XX) |-> <<Dot(XX[i], ww) + bb + normal(split(PRNGKey)[2], i, 1) + nz>>]

gen_y(XX, ww, bb, nz) ==
    [i \in 1..Len(XX) |-> <<Dot(XX[i], ww) + bb + normal(split(PRNGKey)[2], i, 1) * nz>>]

\* The name data2 before it is bound
\* ---- values of read-write.ipynb

\* A Python value: a jax Array, a numpy ndarray, a list or a dict; data holds
\* the elements (rows for two dimensions, <<key, value>> pairs for a dict, the
\* wrapped object for a zero-dimensional object array)
NoValue == [cls |-> "None", dtype |-> "", shape |-> <<>>, data |-> <<>>]

FileNames == {"x-file.npy", "xy-files.npy", "mydict.npy", "ckpt_dir/checkpoint_1"}

\* No parameters, and the result of a forward pass that has not run
NoParams == [made |-> FALSE, tree |-> <<>>]
NoOutput == [res |-> "none", val |-> <<>>]
NoFiles == [f \in FileNames |-> NoValue]
NoNamespace ==
    [x |-> NoValue, y |-> NoValue, mydict |-> NoValue,
     x2 |-> NoValue, y2 |-> NoValue, mydict2 |-> NoValue,
     net |-> <<>>, X |-> <<>>, Y |-> NoOutput, params |-> NoParams,
     clone |-> <<>>, cloned_params |-> NoParams, Y_clone |-> NoOutput]

\* ---- values of the layer notebooks

\* A tensor: its shape and its elements in row order
NoTensor == [made |-> FALSE, shape |-> <<>>, data |-> <<>>]
Tensor(shape, elems) == [made |-> TRUE, shape |-> shape, data |-> elems]

\* A matrix as the list of its rows
NoMatrix == [made |-> FALSE, rows |-> <<>>]
Matrix(rows) == [made |-> TRUE, rows |-> rows]

NoNotebook ==
    [X |-> NoTensor, Y |-> NoTensor,
     dense |-> [in_units |-> 0, units |-> 0],
     params |-> [made |-> FALSE, weight |-> <<>>, bias |-> <<>>],
     dense_in |-> NoMatrix, dense_out |-> NoMatrix,
     init_shape |-> <<0, 0>>, init_key |-> 0, kernel |-> NoMatrix,
     layers |-> <<>>, net_in |-> <<>>, net_params |-> NoParams,
     net_out |-> NoOutput]

NoData ==
    [made |-> FALSE, w |-> <<>>, b |-> 0, noise |-> 0, num_train |-> 0,
     num_val |-> 0, batch_size |-> 0, X |-> <<>>, y |-> <<>>]

\* SyntheticRegressionData(w, b, noise, num_train, num_val, batch_size), as an
\* object
SyntheticRegressionData(ww, bb, nz, nt, nv, bs) ==
    [made |-> TRUE, w |-> ww, b |-> bb, noise |-> nz, num_train |-> nt,
     num_val |-> nv, batch_size |-> bs,
     X |-> gen_X(nt + nv, Len(ww)),
     y |-> gen_y(gen_X(nt + nv, Len(ww)), ww, bb, nz)]

----------------------------------------------------------------------------
\* Loader objects

\* A handle that holds no loader
NoLoader ==
    [kind |-> "none", train |-> FALSE, st |-> "new", indices |-> <<>>, i |-> 0,
     tensors |-> <<<<>>, <<>>>>, lo |-> 0, buffer |-> 0,
     yielded |-> <<>>, read |-> <<>>, res |-> "none"]

\* The handle of a call that raised
Raised(train) == [NoLoader EXCEPT !.kind = "raised", !.train = train]

Init ==
    /\ w \in Ws
    /\ b \in Bs
    /\ noise \in Noises
    /\ num_train \in 0..MaxTrain
    /\ num_val \in 0..MaxVal
    /\ batch_size \in BatchSizes
    /\ X = gen_X(num_train + num_val, Len(w))
    /\ y = gen_y(X, w, b, noise)
    /\ registered = "none"
    /\ loader = [l \in Loaders |-> NoLoader]
    /\ data2 = NoData
    /\ ns = NoNamespace
    /\ files = NoFiles
    /\ nb = NoNotebook

\* d2l.add_to_class(SyntheticRegressionData) of the generator get_dataloader
add_to_class_manual ==
    /\ registered = "none"
    /\ registered' = "manual"
    /\ UNCHANGED <<data, loader, rest>>

\* d2l.add_to_class(SyntheticRegressionData) of the tf.data get_dataloader; it
\* replaces the generator version on the class
add_to_class_tensor ==
    /\ registered = "manual"
    /\ registered' = "tensor"
    /\ UNCHANGED <<data, loader, rest>>

\* ---- the generator version

\* Variants of indices_of: the training range starts at 1; the shuffle is
\* applied in neither mode; the shuffle is applied in both modes; the
\* validation range starts one index early
indices_of_from1(train) ==
    IF train
    THEN Orderings(Range(1, num_train))
    ELSE {Range(num_train, num_train + num_val)}
indices_of_unshuffled(train) ==
    IF train
    THEN {Range(0, num_train)}
    ELSE {Range(num_train, num_train + num_val)}
indices_of_shuffled(train) ==
    IF train
    THEN Orderings(Range(0, num_train))
    ELSE Orderings(Range(num_train, num_train + num_val))

indices_of_overlap(train) ==
    IF train
    THEN Orderings(Range(0, num_train))
    ELSE {Range(Max(num_train - 1, 0), num_train + num_val)}

\* The values `indices` can have when the loop starts
indices_of(train) ==
    IF train
    THEN Orderings(Range(0, num_train))
    ELSE {Range(num_train, num_train + num_val)}

\* Variants of in_range: the bound itself counts as in range; only whole
\* chunks count
in_range_inclusive(i, n, step) == step > 0 /\ i <= n
in_range_whole(i, n, step) == step > 0 /\ i + step <= n

\* i is produced by range(0, n, step): range() is empty for a negative step
\* (and raises for a step of 0, see manual_loop)
in_range(i, n, step) == step > 0 /\ i < n

\* Variant of chunk: the slice ends one early
chunk_short(indices, i, size) == Slice(indices, i, i + size - 1)

\* indices[i: i+size]
chunk(indices, i, size) == Slice(indices, i, i + size)

\* indices[i: i+self.batch_size]
batch_indices(indices, i) == chunk(indices, i, batch_size)

\* Variant of batch_of: the labels are sliced at the offset, not taken at
\* the batch's indices
batch_of_sliced(indices, i) ==
    <<Take(X, batch_indices(indices, i)),
      Slice(y, i, i + Len(batch_indices(indices, i)))>>

\* self.X[batch_indices], self.y[batch_indices]
batch_of(indices, i) ==
    <<Take(X, batch_indices(indices, i)), Take(y, batch_indices(indices, i))>>

\* Calling a generator function runs none of its body
manual_get_dataloader(train) ==
    [NoLoader EXCEPT !.kind = "manual", !.train = train]

\* One step of `for i in range(0, len(indices), self.batch_size)` at offset i:
\* the body yields when i is in the range, and the generator returns when it
\* is not.  range() raises ValueError for a step of 0, and is empty for a
\* negative step.
manual_loop(g, indices, i) ==
    IF batch_size = 0
    THEN [g EXCEPT !.st = "exhausted", !.indices = indices, !.res = "ValueError"]
    ELSE IF in_range(i, Len(indices), batch_size)
    THEN [g EXCEPT !.st = "iterating", !.indices = indices, !.i = i,
                   !.yielded = Append(@, batch_of(indices, i)),
                   !.read = @ \o batch_indices(indices, i),
                   !.res = "batch"]
    ELSE [g EXCEPT !.st = "exhausted", !.indices = indices, !.res = "StopIteration"]

\* Variant of manual_next: next() on an exhausted generator starts the loop
\* again
manual_next_restart(l) ==
    /\ loader[l].kind = "manual"
    /\ \/ /\ loader[l].st = "new"
          /\ \E indices \in indices_of(loader[l].train) :
                loader' = [loader EXCEPT ![l] = manual_loop(@, indices, 0)]
       \/ /\ loader[l].st = "iterating"
          /\ loader' = [loader EXCEPT
                ![l] = manual_loop(@, @.indices, @.i + batch_size)]
       \/ /\ loader[l].st = "exhausted"
          /\ loader' = [loader EXCEPT ![l] =
                manual_loop([@ EXCEPT !.yielded = <<>>, !.read = <<>>],
                            @.indices, 0)]
    /\ UNCHANGED <<data, registered, rest>>

\* Variant of manual_next: the training shuffle reorders the stored rows
\* themselves (random.shuffle applied to the data, not to the index list)
manual_next_inplace(l) ==
    /\ loader[l].kind = "manual"
    /\ \/ /\ loader[l].st = "new"
          /\ \E indices \in indices_of(loader[l].train) :
                /\ loader' = [loader EXCEPT ![l] = manual_loop(@, indices, 0)]
                /\ X' = IF loader[l].train
                        THEN Take(X, indices) \o SliceFrom(X, num_train)
                        ELSE X
                /\ y' = IF loader[l].train
                        THEN Take(y, indices) \o SliceFrom(y, num_train)
                        ELSE y
       \/ /\ loader[l].st = "iterating"
          /\ loader' = [loader EXCEPT
                ![l] = manual_loop(@, @.indices, @.i + batch_size)]
          /\ UNCHANGED <<X, y>>
       \/ /\ loader[l].st = "exhausted"
          /\ loader' = [loader EXCEPT ![l].res = "StopIteration"]
          /\ UNCHANGED <<X, y>>
    /\ UNCHANGED <<w, b, noise, num_train, num_val, batch_size, registered, rest>>

\* Variant of manual_next: the loop offset is shared by the generators, so a
\* generator goes on from the furthest offset any of them has reached
manual_next_shared(l) ==
    /\ loader[l].kind = "manual"
    /\ \/ /\ loader[l].st = "new"
          /\ \E indices \in indices_of(loader[l].train) :
                loader' = [loader EXCEPT ![l] = manual_loop(@, indices, 0)]
       \/ /\ loader[l].st = "iterating"
          /\ LET o == CHOOSE m \in Loaders : m # l
                 pos == IF loader[o].kind = "manual" /\ loader[o].st = "iterating"
                        THEN Max(loader[l].i, loader[o].i)
                        ELSE loader[l].i
             IN  loader' = [loader EXCEPT
                    ![l] = manual_loop(@, @.indices, pos + batch_size)]
       \/ /\ loader[l].st = "exhausted"
          /\ loader' = [loader EXCEPT ![l].res = "StopIteration"]
    /\ UNCHANGED <<data, registered, rest>>

\* Variant of manual_next: past the last batch the loop wraps around to the
\* first one, so the generator never returns
manual_next_cycle(l) ==
    /\ loader[l].kind = "manual"
    /\ \/ /\ loader[l].st = "new"
          /\ \E indices \in indices_of(loader[l].train) :
                loader' = [loader EXCEPT ![l] = manual_loop(@, indices, 0)]
       \/ /\ loader[l].st = "iterating"
          /\ loader' = [loader EXCEPT ![l] =
                IF in_range(@.i + batch_size, Len(@.indices), batch_size)
                THEN manual_loop(@, @.indices, @.i + batch_size)
                ELSE manual_loop([@ EXCEPT !.yielded = <<>>, !.read = <<>>],
                                 @.indices, 0)]
       \/ /\ loader[l].st = "exhausted"
          /\ loader' = [loader EXCEPT ![l].res = "StopIteration"]
    /\ UNCHANGED <<data, registered, rest>>

\* next() on the generator
manual_next(l) ==
    /\ loader[l].kind = "manual"
    /\ \/ /\ loader[l].st = "new"
          /\ \E indices \in indices_of(loader[l].train) :
                loader' = [loader EXCEPT ![l] = manual_loop(@, indices, 0)]
       \/ /\ loader[l].st = "iterating"
          /\ loader' = [loader EXCEPT
                ![l] = manual_loop(@, @.indices, @.i + batch_size)]
       \/ /\ loader[l].st = "exhausted"
          /\ loader' = [loader EXCEPT ![l].res = "StopIteration"]
    /\ UNCHANGED <<data, registered, rest>>

\* ---- the tf.data version

\* Variant of shuffle_buffer: the full length in both modes
shuffle_buffer_full(tensors, train) == Len(tensors[1])

\* shuffle_buffer = tensors[0].shape[0] if train else 1
shuffle_buffer(tensors, train) == IF train THEN Len(tensors[1]) ELSE 1

\* The orders in which Dataset.shuffle(buffer_size) can emit n elements:
\* element k of the output is drawn from a buffer that holds elements not
\* yet emitted among the first k + buffer_size - 1 of the input
shuffle(n, buffer_size) ==
    {p \in Orderings(Range(0, n)) : \A k \in 1..n : p[k] <= k + buffer_size - 2}

\* get_tensorloader(tensors, train, indices=slice(lo, hi)).  shuffle() rejects
\* a buffer_size below 1 and batch() a batch_size below 1.
get_tensorloader(tensors, train, lo, hi) ==
    LET sliced == <<Slice(tensors[1], lo, hi), Slice(tensors[2], lo, hi)>>
    IN  IF shuffle_buffer(sliced, train) < 1 \/ batch_size < 1
        THEN Raised(train)
        ELSE [NoLoader EXCEPT !.kind = "tensor", !.train = train,
                              !.tensors = sliced, !.lo = lo,
                              !.buffer = shuffle_buffer(sliced, train)]

\* Variant of tensor_get_dataloader: the slice is left at its default,
\* slice(0, None)
tensor_get_dataloader_unsliced(train) ==
    get_tensorloader(<<X, y>>, train, 0, Len(X))

\* i = slice(0, self.num_train) if train else slice(self.num_train, None)
tensor_get_dataloader(train) ==
    IF train
    THEN get_tensorloader(<<X, y>>, train, 0, num_train)
    ELSE get_tensorloader(<<X, y>>, train, num_train, Len(X))

\* Variant of cardinality: a short last batch is not counted
cardinality_floor(n, size) == n \div size

\* The cardinality of Dataset.batch(size) over n elements (the last batch is
\* kept when it is short)
cardinality(n, size) == CeilDiv(n, size)

\* len(loader)
tensor_len(t) == cardinality(Len(t.tensors[1]), batch_size)

\* Dataset.batch(batch_size) at offset i of the shuffled order
tensor_loop(t, order, i) ==
    LET pos == Slice(order, i, i + batch_size)
    IN  IF i < Len(order)
        THEN [t EXCEPT !.st = "iterating", !.indices = order, !.i = i,
                       !.yielded = Append(@, <<Take(t.tensors[1], pos),
                                               Take(t.tensors[2], pos)>>),
                       !.read = @ \o [k \in 1..Len(pos) |-> t.lo + pos[k]],
                       !.res = "batch"]
        ELSE [t EXCEPT !.st = "exhausted", !.indices = order, !.res = "StopIteration"]

\* next() on the iterator of a tf.data loader
tensor_next(l) ==
    /\ loader[l].kind = "tensor"
    /\ \/ /\ loader[l].st = "new"
          /\ \E order \in shuffle(Len(loader[l].tensors[1]), loader[l].buffer) :
                loader' = [loader EXCEPT ![l] = tensor_loop(@, order, 0)]
       \/ /\ loader[l].st = "iterating"
          /\ loader' = [loader EXCEPT
                ![l] = tensor_loop(@, @.indices, @.i + batch_size)]
       \/ /\ loader[l].st = "exhausted"
          /\ loader' = [loader EXCEPT ![l].res = "StopIteration"]
    /\ UNCHANGED <<data, registered, rest>>

\* iter(loader) on a tf.data loader that was iterated before: a new iterator
\* over the same pipeline, which shuffles anew
tensor_iter(l) ==
    /\ loader[l].kind = "tensor"
    /\ loader[l].st # "new"
    /\ loader' = [loader EXCEPT ![l] =
            [@ EXCEPT !.st = "new", !.indices = <<>>, !.i = 0,
                      !.yielded = <<>>, !.read = <<>>, !.res = "none"]]
    /\ UNCHANGED <<data, registered, rest>>

\* Variant of get_dataloader: the first registration stays in force
get_dataloader_first(l, train) ==
    /\ registered # "none"
    /\ loader' = [loader EXCEPT ![l] = manual_get_dataloader(train)]
    /\ UNCHANGED <<data, registered, rest>>

\* data.get_dataloader(train), bound to handle l
get_dataloader(l, train) ==
    /\ registered # "none"
    /\ loader' = [loader EXCEPT ![l] =
            IF registered = "manual"
            THEN manual_get_dataloader(train)
            ELSE tensor_get_dataloader(train)]
    /\ UNCHANGED <<data, registered, rest>>

Next ==
    \/ add_to_class_manual
    \/ add_to_class_tensor
    \/ \E l \in Loaders, train \in BOOLEAN : get_dataloader(l, train)
    \/ \E l \in Loaders : manual_next(l)
    \/ \E l \in Loaders : tensor_next(l)
    \/ \E l \in Loaders : tensor_iter(l)

Spec == Init /\ [][Next]_vars

----------------------------------------------------------------------------
\* Datasets of several generating models, with one loader handle

Ws2 == {<<2>>, <<2, -3>>}
Noises2 == {0, 1}

InitData ==
    /\ w \in Ws2
    /\ b \in Bs
    /\ noise \in Noises2
    /\ num_train \in 0..MaxTrain
    /\ num_val \in 0..MaxVal
    /\ batch_size \in BatchSizes
    /\ X = gen_X(num_train + num_val, Len(w))
    /\ y = gen_y(X, w, b, noise)
    /\ registered = "none"
    /\ loader = [l \in Loaders |-> NoLoader]
    /\ data2 = NoData
    /\ ns = NoNamespace
    /\ files = NoFiles
    /\ nb = NoNotebook

\* Variant of construct2: the key comes from a seed that differs from one
\* construction to the next
construct2_fresh(ww, nz) ==
    /\ \E seed \in {0, 1} :
        LET n == num_train + num_val
            XX == [i \in 1..n |-> [j \in 1..Len(ww) |-> normal(split(seed)[1], i, j)]]
        IN  data2' = [SyntheticRegressionData(ww, b, nz, num_train, num_val, batch_size)
                        EXCEPT !.X = XX,
                               !.y = [i \in 1..n |->
                                        <<Dot(XX[i], ww) + b + normal(split(seed)[2], i, 1) * nz>>]]
    /\ UNCHANGED <<data, registered, loader, ns, files, nb>>

\* data2 = SyntheticRegressionData(w=ww, b=b, noise=nz, num_train=num_train,
\* num_val=num_val, batch_size=batch_size)
construct2(ww, nz) ==
    /\ data2' = SyntheticRegressionData(ww, b, nz, num_train, num_val, batch_size)
    /\ UNCHANGED <<data, registered, loader, ns, files, nb>>

NextData ==
    \/ add_to_class_manual
    \/ add_to_class_tensor
    \/ \E train \in BOOLEAN : get_dataloader("p", train)
    \/ manual_next("p")
    \/ tensor_next("p")
    \/ tensor_iter("p")
    \/ \E ww \in Ws2, nz \in Noises2 : construct2(ww, nz)

SpecData == InitData /\ [][NextData]_vars
----------------------------------------------------------------------------
\* Vocabulary of the properties

RECURSIVE SumSeq(_)
SumSeq(s) == IF Len(s) = 0 THEN 0 ELSE Head(s) + SumSeq(Tail(s))

RECURSIVE Concat(_)
Concat(ss) == IF Len(ss) = 0 THEN <<>> ELSE Head(ss) \o Concat(Tail(ss))

\* The length of the split a loader reads
SplitLen(t) == IF t.train THEN num_train ELSE num_val

Alive(t) == t.kind \in {"manual", "tensor"}

\* The pass of t has ended
Done(t) == Alive(t) /\ t.st = "exhausted"

\* The row counts of the batches t has yielded
Sizes(t) == [k \in 1..Len(t.yielded) |-> Len(t.yielded[k][1])]

\* The feature rows and the label rows t has yielded, batch after batch
XRows(t) == Concat([k \in 1..Len(t.yielded) |-> t.yielded[k][1]])
YRows(t) == Concat([k \in 1..Len(t.yielded) |-> t.yielded[k][2]])

\* The permutations of 0..n-1, as lists
Perms ==
    [n \in 0..MaxTrain |->
        {s \in [1..n -> 0..(n - 1)] : \A i, j \in 1..n : s[i] = s[j] => i = j}]
PermsOf(n) == Perms[n]

IsPrefix(s, t) == Len(s) <= Len(t) /\ s = SubSeq(t, 1, Len(s))

\* The chunk sizes the generator's loop takes from n indices, from offset i
RECURSIVE pass_sizes(_, _, _)
pass_sizes(n, i, size) ==
    IF in_range(i, n, size)
    THEN <<Len(chunk(Range(0, n), i, size))>> \o pass_sizes(n, i + size, size)
    ELSE <<>>

Sizes_1000_32 == pass_sizes(1000, 0, 32)
Sizes_10_4 == pass_sizes(10, 0, 4)

\* ---- one pass of one consumer

\* data.get_dataloader(train) for a consumer that creates its loader once
create_loader(train) ==
    /\ loader["p"].kind = "none"
    /\ get_dataloader("p", train)

\* The consumer's loop `for batch in loader`: it keeps calling next() until
\* the loader reports exhaustion
NextPass ==
    \/ add_to_class_manual
    \/ add_to_class_tensor
    \/ \E train \in BOOLEAN : create_loader(train)
    \/ manual_next("p")
    \/ tensor_next("p")

SpecPass ==
    /\ Init
    /\ [][NextPass]_vars
    /\ WF_vars(manual_next("p"))
    /\ WF_vars(tensor_next("p"))

\* ---- read-write.ipynb: jnp.save and jnp.load

MaxLen == 3

\* 2^24: every integer up to it is a float32, and 2^24 + 1 is not
Float32Exact == 16777216

Array(dtype, elems) ==
    [cls |-> "Array", dtype |-> dtype, shape |-> <<Len(elems)>>, data |-> elems]

\* jnp.arange(start, start + n) and jnp.zeros(n, dtype)
arange(start, n) == Array("int32", [i \in 1..n |-> start + i - 1])
zeros(n, dtype) == Array(dtype, [i \in 1..n |-> 0])

\* The float32 nearest to the integer v, for 0 <= v < 2^25 (ties go to the
\* even mantissa)
to_float32(v) ==
    IF v <= Float32Exact \/ v % 2 = 0
    THEN v
    ELSE IF (v \div 2) % 2 = 0 THEN v - 1 ELSE v + 1

\* v converted to dtype; float64 holds every int32 and every float32
astype(v, dtype) == IF dtype = "float32" THEN to_float32(v) ELSE v

\* numpy's common dtype of two arrays
promote(d1, d2) == IF d1 = d2 THEN d1 ELSE "float64"

\* np.asanyarray(value), which np.save applies to what it is given: an array
\* stays as it is, a list of arrays of one shape is stacked into one array of
\* their common dtype, and any other object is wrapped in a zero-dimensional
\* object array
asanyarray(v) ==
    IF v.cls = "Array"
    THEN [v EXCEPT !.cls = "ndarray"]
    ELSE IF v.cls = "list"
    THEN LET dtype == promote(v.data[1].dtype, v.data[2].dtype)
         IN  [cls |-> "ndarray", dtype |-> dtype,
              shape |-> <<Len(v.data)>> \o v.data[1].shape,
              data |-> [k \in 1..Len(v.data) |->
                          [i \in 1..Len(v.data[k].data) |->
                              astype(v.data[k].data[i], dtype)]]]
    ELSE [cls |-> "ndarray", dtype |-> "object", shape |-> <<>>, data |-> <<v>>]

\* jnp.asarray(out) in jnp.load: float64 becomes float32 (64-bit types are
\* off), and an object array raises TypeError, which jnp.load swallows
jnp_asarray(out) ==
    IF out.dtype = "object"
    THEN out
    ELSE IF out.dtype = "float64"
    THEN [cls |-> "Array", dtype |-> "float32", shape |-> out.shape,
          data |-> [k \in 1..Len(out.data) |->
                      [i \in 1..Len(out.data[k]) |-> to_float32(out.data[k][i])]]]
    ELSE [out EXCEPT !.cls = "Array"]

\* jnp.load(file, allow_pickle=True)
load(file) == jnp_asarray(files[file])

\* Row k of a two-dimensional array, as unpacking yields it
row(a, k) == Array(a.dtype, a.data[k])

\* {'x': x, 'y': y}
dict_xy(vx, vy) ==
    [cls |-> "dict", dtype |-> "", shape |-> <<>>,
     data |-> << <<"x", vx>>, <<"y", vy>> >>]

\* [x, y]
list_xy(vx, vy) ==
    [cls |-> "list", dtype |-> "", shape |-> <<>>, data |-> <<vx, vy>>]

\* jnp.save(file, value)
save(file, v) == files' = [files EXCEPT ![file] = asanyarray(v)]

\* x = jnp.arange(...); y = jnp.zeros(...): two tensors of one length
Namespaces ==
    {[NoNamespace EXCEPT !.x = arange(start, n), !.y = zeros(n, dtype)] :
        start \in {0, Float32Exact}, n \in 1..MaxLen,
        dtype \in {"float32", "int32"}}

InitRW ==
    /\ w \in Ws
    /\ b \in Bs
    /\ noise \in Noises
    /\ num_train = 1
    /\ num_val = 1
    /\ batch_size = 1
    /\ X = gen_X(num_train + num_val, Len(w))
    /\ y = gen_y(X, w, b, noise)
    /\ registered = "none"
    /\ loader = [l \in Loaders |-> NoLoader]
    /\ data2 = NoData
    /\ ns \in Namespaces
    /\ files = NoFiles
    /\ nb = NoNotebook

\* jnp.save('x-file.npy', x)
save_x ==
    /\ save("x-file.npy", ns.x)
    /\ UNCHANGED <<data, registered, loader, data2, ns, nb>>

\* x2 = jnp.load('x-file.npy', allow_pickle=True)
load_x ==
    /\ files["x-file.npy"].cls # "None"
    /\ ns' = [ns EXCEPT !.x2 = load("x-file.npy")]
    /\ UNCHANGED <<data, registered, loader, data2, files, nb>>

\* jnp.save('xy-files.npy', [x, y])
save_xy ==
    /\ save("xy-files.npy", list_xy(ns.x, ns.y))
    /\ UNCHANGED <<data, registered, loader, data2, ns, nb>>

\* x2, y2 = jnp.load('xy-files.npy', allow_pickle=True)
load_xy ==
    /\ files["xy-files.npy"].cls # "None"
    /\ ns' = [ns EXCEPT !.x2 = row(load("xy-files.npy"), 1),
                        !.y2 = row(load("xy-files.npy"), 2)]
    /\ UNCHANGED <<data, registered, loader, data2, files, nb>>

\* mydict = {'x': x, 'y': y}; jnp.save('mydict.npy', mydict)
save_mydict ==
    /\ ns' = [ns EXCEPT !.mydict = dict_xy(ns.x, ns.y)]
    /\ save("mydict.npy", dict_xy(ns.x, ns.y))
    /\ UNCHANGED <<data, registered, loader, data2, nb>>

\* mydict2 = jnp.load('mydict.npy', allow_pickle=True)
load_mydict ==
    /\ files["mydict.npy"].cls # "None"
    /\ ns' = [ns EXCEPT !.mydict2 = load("mydict.npy")]
    /\ UNCHANGED <<data, registered, loader, data2, files, nb>>

NextRW ==
    \/ save_x
    \/ load_x
    \/ save_xy
    \/ load_xy
    \/ save_mydict
    \/ load_mydict

SpecRW == InitRW /\ [][NextRW]_vars

\* ---- read-write.ipynb: checkpoints of model parameters

MaxIn == 2
MaxHidden == 2
MaxOut == 2

\* d2l.get_seed()
Seeds == {0, 1}

\* A module is the list of its Dense layers, each with the attribute name it
\* is bound to; __call__ chains them with relu between
Dense(name, features) == [name |-> name, features |-> features]
MLP(hidden, output) == <<Dense("hidden", hidden), Dense("output", output)>>

relu(v) == Max(v, 0)

\* jnp.dot(x, kernel) + bias, for x of r rows
dense_forward(x, kernel, bias) ==
    [i \in 1..Len(x) |->
        [j \in 1..Len(bias) |->
            SumSeq([k \in 1..Len(kernel) |-> x[i][k] * kernel[k][j]]) + bias[j]]]

\* The parameters nn.Dense(features) creates for inputs of width n: a random
\* kernel of shape (n, features) and a zero bias
dense_init(key, n, features) ==
    [kernel |-> [i \in 1..n |-> [j \in 1..features |-> normal(key, i, j)]],
     bias |-> [j \in 1..features |-> 0]]

\* The width of the input of layer k
in_width(arch, x, k) == IF k = 1 THEN Len(x[1]) ELSE arch[k - 1].features

\* net.init(key, X): one parameter group per layer name
init(arch, key, x) ==
    [made |-> TRUE,
     tree |-> [g \in {arch[k].name : k \in 1..Len(arch)} |->
                LET k == CHOOSE k \in 1..Len(arch) :
                            /\ arch[k].name = g
                            /\ \A m \in 1..(k - 1) : arch[m].name # g
                IN  dense_init(split(key)[1] + k, in_width(arch, x, k),
                               arch[k].features)]]

\* The shapes Dense(features) asks of its parameters for input h
shape_ok(p, h, features) ==
    /\ Len(p.kernel) = Len(h[1])
    /\ \A i \in 1..Len(p.kernel) : Len(p.kernel[i]) = features
    /\ Len(p.bias) = features

\* Variant of dense_apply: a layer whose name is not in the mapping is given
\* fresh parameters
dense_apply_lenient(layer, k, params, h) ==
    IF layer.name \notin DOMAIN params.tree
    THEN [res |-> "ok",
          val |-> LET p == dense_init(k, Len(h[1]), layer.features)
                  IN  dense_forward(h, p.kernel, p.bias)]
    ELSE IF ~shape_ok(params.tree[layer.name], h, layer.features)
    THEN [res |-> "ScopeParamShapeError", val |-> <<>>]
    ELSE [res |-> "ok",
          val |-> dense_forward(h, params.tree[layer.name].kernel,
                                params.tree[layer.name].bias)]

\* One Dense layer under apply: the layer reads the group of its own name,
\* flax raises when the group is missing or a shape is not the one asked for
dense_apply(layer, k, params, h) ==
    IF layer.name \notin DOMAIN params.tree
    THEN [res |-> "ScopeParamNotFoundError", val |-> <<>>]
    ELSE IF ~shape_ok(params.tree[layer.name], h, layer.features)
    THEN [res |-> "ScopeParamShapeError", val |-> <<>>]
    ELSE [res |-> "ok",
          val |-> dense_forward(h, params.tree[layer.name].kernel,
                                params.tree[layer.name].bias)]

\* self.output(nn.relu(self.hidden(x))): layers k.. of arch applied to h
RECURSIVE forward(_, _, _, _)
forward(arch, params, h, k) ==
    LET out == dense_apply(arch[k], k, params, h)
    IN  IF out.res # "ok" \/ k = Len(arch)
        THEN out
        ELSE forward(arch, params,
                     [i \in 1..Len(out.val) |->
                        [j \in 1..Len(out.val[i]) |-> relu(out.val[i][j])]],
                     k + 1)

\* module.apply(params, x)
apply(arch, params, x) == forward(arch, params, x, 1)

\* An array as the checkpoint stores it: its shape and its elements in row
\* order
flatten(m) == Concat(m)

\* Variant of unflatten: the elements are read in column order
unflatten_columns(shape, flat) ==
    [i \in 1..shape[1] |-> [j \in 1..shape[2] |-> flat[(j - 1) * shape[1] + i]]]

unflatten(shape, flat) ==
    [i \in 1..shape[1] |-> [j \in 1..shape[2] |-> flat[(i - 1) * shape[2] + j]]]

\* The state dict of a parameter mapping, serialized: one entry per array,
\* under its path of keys
serialize(params) ==
    [cls |-> "msgpack", dtype |-> "", shape |-> <<>>,
     data |-> <<
        {[path |-> <<g, "kernel">>,
          shape |-> <<Len(params.tree[g].kernel), Len(params.tree[g].bias)>>,
          flat |-> flatten(params.tree[g].kernel)] : g \in DOMAIN params.tree}
        \cup
        {[path |-> <<g, "bias">>,
          shape |-> <<Len(params.tree[g].bias)>>,
          flat |-> params.tree[g].bias] : g \in DOMAIN params.tree} >>]

entry(blob, g, name) == CHOOSE e \in blob.data[1] : e.path = <<g, name>>

\* checkpoints.restore_checkpoint(dir, target=None): the nested dict is built
\* from the stored paths alone
restore(blob) ==
    [made |-> TRUE,
     tree |-> [g \in {e.path[1] : e \in blob.data[1]} |->
                [kernel |-> unflatten(entry(blob, g, "kernel").shape,
                                      entry(blob, g, "kernel").flat),
                 bias |-> entry(blob, g, "bias").flat]]]

\* The architectures a clone can be given: the MLP itself, and ones of other
\* widths, other layer names, fewer layers or more layers
Architectures ==
    {MLP(h, o) : h \in 1..MaxHidden, o \in 1..MaxOut}
        \cup {<<Dense("hidden", h)>> : h \in 1..MaxHidden}
        \cup {<<Dense("dense1", h), Dense("output", o)>> :
                 h \in 1..MaxHidden, o \in 1..MaxOut}
        \cup {<<Dense("hidden", h), Dense("middle", h), Dense("output", o)>> :
                 h \in 1..MaxHidden, o \in 1..MaxOut}

\* net = MLP(); X = jax.random.normal(key, (2, n));
\* Y, params = net.init_with_output(key, X)
init_with_output(seed, n, hidden, output) ==
    LET x == [i \in 1..2 |-> [j \in 1..n |-> normal(seed, i, j)]]
        net == MLP(hidden, output)
    IN  [NoNamespace EXCEPT
            !.net = net, !.X = x,
            !.params = init(net, seed, x),
            !.Y = apply(net, init(net, seed, x), x)]

InitCkpt ==
    /\ w \in Ws
    /\ b \in Bs
    /\ noise \in Noises
    /\ num_train = 1
    /\ num_val = 1
    /\ batch_size = 1
    /\ X = gen_X(num_train + num_val, Len(w))
    /\ y = gen_y(X, w, b, noise)
    /\ registered = "none"
    /\ loader = [l \in Loaders |-> NoLoader]
    /\ data2 = NoData
    /\ \E seed \in Seeds, n \in 1..MaxIn, hidden \in 1..MaxHidden, output \in 1..MaxOut :
          ns = init_with_output(seed, n, hidden, output)
    /\ files = NoFiles
    /\ nb = NoNotebook

\* checkpoints.save_checkpoint('ckpt_dir', params, step=1, overwrite=True)
save_checkpoint ==
    /\ files' = [files EXCEPT !["ckpt_dir/checkpoint_1"] = serialize(ns.params)]
    /\ UNCHANGED <<data, registered, loader, data2, ns, nb>>

\* cloned_params = flax.core.freeze(checkpoints.restore_checkpoint('ckpt_dir',
\* target=None))
restore_checkpoint ==
    /\ files["ckpt_dir/checkpoint_1"].cls # "None"
    /\ ns' = [ns EXCEPT !.cloned_params = restore(files["ckpt_dir/checkpoint_1"])]
    /\ UNCHANGED <<data, registered, loader, data2, files, nb>>

\* clone = MLP(), or a module of another architecture
make_clone(arch) ==
    /\ ns' = [ns EXCEPT !.clone = arch, !.Y_clone = NoOutput]
    /\ UNCHANGED <<data, registered, loader, data2, files, nb>>

\* Y_clone = clone.apply(cloned_params, X)
clone_apply ==
    /\ ns.clone # <<>>
    /\ ns.cloned_params.made
    /\ ns' = [ns EXCEPT !.Y_clone = apply(ns.clone, ns.cloned_params, ns.X)]
    /\ UNCHANGED <<data, registered, loader, data2, files, nb>>

NextCkpt ==
    \/ save_checkpoint
    \/ restore_checkpoint
    \/ \E arch \in Architectures : make_clone(arch)
    \/ clone_apply

SpecCkpt == InitCkpt /\ [][NextCkpt]_vars

\* ---- custom layers: CenteredLayer

MaxElems == 3
MaxCols == 2

\* float32 is a grid: a representable number is a whole number of steps, and
\* 1.0 is Unit steps
Unit == 2

\* a / n rounded to the nearest representable number
round_div(a, n) == (2 * a + n) \div (2 * n)

\* X.mean(): the mean over all elements
mean(t) == round_div(SumSeq(t.data), Len(t.data))

\* Variant of CenteredLayer: the mean is taken along the last axis
CenteredLayer_axis(t) ==
    LET c == t.shape[Len(t.shape)]
        row_mean(r) == round_div(SumSeq(SubSeq(t.data, (r - 1) * c + 1, r * c)), c)
    IN  Tensor(t.shape,
               [i \in 1..Len(t.data) |-> t.data[i] - row_mean(((i - 1) \div c) + 1)])

\* CenteredLayer.__call__: X - X.mean()
CenteredLayer(t) ==
    Tensor(t.shape, [i \in 1..Len(t.data) |-> t.data[i] - mean(t)])

\* The whole numbers the elements of an input are drawn from
Vals == 0..2

\* jnp.array([1.0, 2, 3, 4, 5]), and vectors and matrices of a few elements
LayerInputs ==
    {Tensor(<<5>>, [i \in 1..5 |-> Unit * i])}
        \cup UNION {{Tensor(<<n>>, [i \in 1..n |-> Unit * v[i]]) : v \in [1..n -> Vals]} :
                       n \in 1..MaxElems}
        \cup UNION {{Tensor(<<2, c>>, [i \in 1..(2 * c) |-> Unit * v[i]]) :
                        v \in [1..(2 * c) -> Vals]} : c \in 1..MaxCols}

InitLayer ==
    /\ w \in Ws
    /\ b \in Bs
    /\ noise \in Noises
    /\ num_train = 1
    /\ num_val = 1
    /\ batch_size = 1
    /\ X = gen_X(num_train + num_val, Len(w))
    /\ y = gen_y(X, w, b, noise)
    /\ registered = "none"
    /\ loader = [l \in Loaders |-> NoLoader]
    /\ data2 = NoData
    /\ ns = NoNamespace
    /\ files = NoFiles
    /\ nb \in {[NoNotebook EXCEPT !.X = t] : t \in LayerInputs}

\* layer = CenteredLayer(); layer(X)
layer_call ==
    /\ nb' = [nb EXCEPT !.Y = CenteredLayer(nb.X)]
    /\ UNCHANGED <<data, registered, loader, data2, ns, files>>

NextLayer == layer_call

SpecLayer == InitLayer /\ [][NextLayer]_vars

\* ---- custom layers: MyDense

\* setup(): weight of shape (in_units, units) drawn by
\* nn.initializers.normal(stddev=1), bias of length units from
\* nn.initializers.zeros
MyDense_setup(key, in_units, units) ==
    [made |-> TRUE,
     weight |-> [i \in 1..in_units |-> [j \in 1..units |-> normal(key, i, j)]],
     bias |-> [j \in 1..units |-> 0]]

\* Variant of MyDense_call: the activation is left out
MyDense_call_linear(params, x) ==
    Matrix(dense_forward(x, params.weight, params.bias))

\* __call__: linear = jnp.matmul(X, self.weight) + self.bias;
\* return nn.relu(linear)
MyDense_call(params, x) ==
    LET linear == dense_forward(x, params.weight, params.bias)
    IN  Matrix([i \in 1..Len(linear) |->
                  [j \in 1..Len(linear[i]) |-> relu(linear[i][j])]])

\* jax.random.uniform(key, (r, n)): matrices of r rows of n draws
DenseInputs(n) ==
    UNION {[1..r -> [1..n -> Vals]] : r \in 1..2}

\* dense = MyDense(in_units, units)
InitDense ==
    /\ w \in Ws
    /\ b \in Bs
    /\ noise \in Noises
    /\ num_train = 1
    /\ num_val = 1
    /\ batch_size = 1
    /\ X = gen_X(num_train + num_val, Len(w))
    /\ y = gen_y(X, w, b, noise)
    /\ registered = "none"
    /\ loader = [l \in Loaders |-> NoLoader]
    /\ data2 = NoData
    /\ ns = NoNamespace
    /\ files = NoFiles
    /\ \E in_units \in 1..MaxIn, units \in 1..MaxOut :
          nb = [NoNotebook EXCEPT !.dense = [in_units |-> in_units, units |-> units]]

\* params = dense.init(d2l.get_key(), jnp.zeros((3, in_units)))
dense_init_params(key) ==
    /\ nb' = [nb EXCEPT !.params = MyDense_setup(key, nb.dense.in_units,
                                                 nb.dense.units),
                        !.dense_in = NoMatrix, !.dense_out = NoMatrix]
    /\ UNCHANGED <<data, registered, loader, data2, ns, files>>

\* dense.apply(params, jax.random.uniform(d2l.get_key(), (2, in_units)))
dense_apply_params(x) ==
    /\ nb.params.made
    /\ nb' = [nb EXCEPT !.dense_in = Matrix(x),
                        !.dense_out = MyDense_call(nb.params, x)]
    /\ UNCHANGED <<data, registered, loader, data2, ns, files>>

NextDense ==
    \/ \E key \in Seeds : dense_init_params(key)
    \/ \E x \in DenseInputs(nb.dense.in_units) : dense_apply_params(x)

SpecDense == InitDense /\ [][NextDense]_vars

\* ---- custom initialization: MyInit

\* Keys of the random draws; over all of them every position of the
\* result takes every value of [-10, 10)
InitKeys == 0..(20 * Unit - 1)

\* tf.random.uniform(shape, lo, hi): one draw from [lo, hi) per position
uniform(key, shape, lo, hi) ==
    [i \in 1..shape[1] |->
        [j \in 1..shape[2] |-> lo + ((key + 17 * i + 9 * j) % (hi - lo))]]

abs(v) == IF v < 0 THEN 0 - v ELSE v

\* tf.cast(factor, tf.float32): True is 1.0 and False is 0.0
cast(flag) == IF flag THEN 1 ELSE 0

\* Variant of MyInit: a draw of magnitude exactly 5 is dropped
MyInit_strict(shape, key) ==
    LET draws == uniform(key, shape, 0 - 10 * Unit, 10 * Unit)
    IN  [i \in 1..Len(draws) |->
            [j \in 1..Len(draws[i]) |->
                draws[i][j] * cast(abs(draws[i][j]) > 5 * Unit)]]

\* MyInit.__call__: data = tf.random.uniform(shape, -10, 10);
\* factor = tf.cast(tf.abs(data) >= 5, tf.float32); return data * factor
MyInit(shape, key) ==
    LET draws == uniform(key, shape, 0 - 10 * Unit, 10 * Unit)
    IN  [i \in 1..Len(draws) |->
            [j \in 1..Len(draws[i]) |->
                draws[i][j] * cast(abs(draws[i][j]) >= 5 * Unit)]]

\* A Dense layer with kernel_initializer=MyInit() whose kernel will have
\* the shape (input width, units)
InitMyInit ==
    /\ w \in Ws
    /\ b \in Bs
    /\ noise \in Noises
    /\ num_train = 1
    /\ num_val = 1
    /\ batch_size = 1
    /\ X = gen_X(num_train + num_val, Len(w))
    /\ y = gen_y(X, w, b, noise)
    /\ registered = "none"
    /\ loader = [l \in Loaders |-> NoLoader]
    /\ data2 = NoData
    /\ ns = NoNamespace
    /\ files = NoFiles
    /\ \E r \in 1..MaxIn, c \in 1..MaxOut :
          nb = [NoNotebook EXCEPT !.init_shape = <<r, c>>]

\* net(X): the layer is built and its kernel is created by the initializer
build_kernel(key) ==
    /\ nb' = [nb EXCEPT !.init_key = key,
                        !.kernel = Matrix(MyInit(nb.init_shape, key))]
    /\ UNCHANGED <<data, registered, loader, data2, ns, files>>

NextMyInit == \E key \in InitKeys : build_kernel(key)

SpecMyInit == InitMyInit /\ [][NextMyInit]_vars

\* ---- tied parameters: one layer object at two positions of nn.Sequential

\* The names flax gives the Dense positions 0, 2, 4, 6 of the list
\* [Dense, relu, Dense, relu, Dense, relu, Dense]
LayerNames == <<"layers_0", "layers_2", "layers_4", "layers_6">>

\* A layer object: its identity and its features
Layer(id, features) == [id |-> id, features |-> features]

\* Variant of Sequential: every position is named after itself
Sequential_per_position(layers) ==
    [k \in 1..Len(layers) |-> Dense(LayerNames[k], layers[k].features)]

\* nn.Sequential(layers): an object is named after the first position that
\* holds it, and keeps that name at every later position
Sequential(layers) ==
    [k \in 1..Len(layers) |->
        LET first == CHOOSE m \in 1..k :
                        /\ layers[m].id = layers[k].id
                        /\ \A n \in 1..(m - 1) : layers[n].id # layers[k].id
        IN  Dense(LayerNames[first], layers[k].features)]

\* The net of the notebook (shared at the second and third Dense position)
\* and the same net with four separate layers
Nets ==
    {<<Layer(1, h), Layer(2, h), Layer(2, h), Layer(3, 1)>> : h \in 1..MaxHidden}
    \cup
    {<<Layer(1, h), Layer(2, h), Layer(3, h), Layer(4, 1)>> : h \in 1..MaxHidden}

\* X = jax.random.uniform(d2l.get_key(), (2, 4)), here of one row
NetInputs == UNION {[1..1 -> [1..n -> Vals]] : n \in 1..MaxIn}

InitTied ==
    /\ w \in Ws
    /\ b \in Bs
    /\ noise \in Noises
    /\ num_train = 1
    /\ num_val = 1
    /\ batch_size = 1
    /\ X = gen_X(num_train + num_val, Len(w))
    /\ y = gen_y(X, w, b, noise)
    /\ registered = "none"
    /\ loader = [l \in Loaders |-> NoLoader]
    /\ data2 = NoData
    /\ ns = NoNamespace
    /\ files = NoFiles
    /\ \E layers \in Nets, x \in NetInputs :
          nb = [NoNotebook EXCEPT !.layers = layers, !.net_in = x]

\* params = net.init(jax.random.PRNGKey(d2l.get_seed()), X)
net_init(key) ==
    /\ nb' = [nb EXCEPT !.net_params = init(Sequential(nb.layers), key, nb.net_in),
                        !.net_out = NoOutput]
    /\ UNCHANGED <<data, registered, loader, data2, ns, files>>

\* net.apply(params, X)
net_apply ==
    /\ nb.net_params.made
    /\ nb' = [nb EXCEPT !.net_out = apply(Sequential(nb.layers), nb.net_params,
                                          nb.net_in)]
    /\ UNCHANGED <<data, registered, loader, data2, ns, files>>

\* One parameter of the group g is changed; the output of the earlier
\* parameters is dropped
change_param(g, v) ==
    /\ nb.net_params.made
    /\ g \in DOMAIN nb.net_params.tree
    /\ nb.net_params.tree[g].kernel[1][1] # v
    /\ nb' = [nb EXCEPT !.net_params.tree[g].kernel[1][1] = v,
                        !.net_out = NoOutput]
    /\ UNCHANGED <<data, registered, loader, data2, ns, files>>

NextTied ==
    \/ \E key \in Seeds : net_init(key)
    \/ net_apply
    \/ \E g \in {LayerNames[k] : k \in 1..Len(LayerNames)}, v \in {0 - 1, 1} :
          change_param(g, v)

SpecTied == InitTied /\ [][NextTied]_vars

----------------------------------------------------------------------------
C2_TrainingPassIsPermutation ==
    batch_size >= 1 =>
        \A l \in Loaders :
            LET g == loader[l] IN
            g.kind = "manual" /\ g.train =>
                /\ \A k \in 1..Len(g.read) : g.read[k] \in 0..(num_train - 1)
                /\ \A j, k \in 1..Len(g.read) : g.read[j] = g.read[k] => j = k
                /\ Done(g) => g.read \in PermsOf(num_train)
                /\ g.st = "new" /\ (\A m \in Loaders \ {l} : ~Alive(loader[m])) =>
                      \A p \in PermsOf(num_train) :
                          ENABLED (manual_next(l) /\ loader'[l].indices = p)

\* A full generator training pass over three examples read them in an order
\* other than the stored one.
C2_Witness ==
    /\ batch_size >= 1
    /\ \E l \in Loaders :
        /\ loader[l].kind = "manual" /\ loader[l].train /\ Done(loader[l])
        /\ Len(loader[l].read) = 3
        /\ loader[l].read # Range(0, 3)

\* C3: in validation mode the generator loader reads num_train, num_train+1,
\* ..., num_train+num_val-1 in ascending order, and the batches of a full
\* pass concatenate to X[num_train:], y[num_train:].
C3_ValidationInStoredOrder ==
    batch_size >= 1 =>
        \A l \in Loaders :
            LET g == loader[l] IN
            g.kind = "manual" /\ ~g.train =>
                /\ IsPrefix(g.read, Range(num_train, num_train + num_val))
                /\ Done(g) =>
                      /\ g.read = Range(num_train, num_train + num_val)
                      /\ XRows(g) = SliceFrom(X, num_train)
                      /\ YRows(g) = SliceFrom(y, num_train)

\* A full generator validation pass of two batches behind a non-empty
\* training prefix.
C3_Witness ==
    /\ batch_size >= 1
    /\ num_train >= 1
    /\ \E l \in Loaders :
        /\ loader[l].kind = "manual" /\ ~loader[l].train /\ Done(loader[l])
        /\ Len(loader[l].yielded) = 2

\* C4: every batch is a (features, labels) pair of equally many rows, at
\* least 1 and at most batch_size, and every batch of a pass but the last has
\* exactly batch_size rows.
C4_BatchShape ==
    batch_size >= 1 =>
        \A l \in Loaders :
            LET t == loader[l] IN
            \A k \in 1..Len(t.yielded) :
                /\ Len(t.yielded[k]) = 2
                /\ Len(t.yielded[k][1]) = Len(t.yielded[k][2])
                /\ Len(t.yielded[k][1]) >= 1
                /\ Len(t.yielded[k][1]) <= batch_size
                /\ k < Len(t.yielded) => Len(t.yielded[k][1]) = batch_size

\* A pass ended with a full batch followed by a short one.
C4_Witness ==
    /\ batch_size = 2
    /\ \E l \in Loaders :
        /\ Done(loader[l])
        /\ Sizes(loader[l]) = <<2, 1>>

\* C5: with batch_size >= 1 a full pass over a split of length L yields
\* ceil(L / batch_size) batches, the last of L - (ceil(L / batch_size) - 1) *
\* batch_size rows; 1000 examples in batches of 32 give 32 batches, the last
\* of 8 rows, and 10 examples in batches of 4 give sizes 4, 4, 2.
C5_BatchCount ==
    /\ batch_size >= 1 =>
        \A l \in Loaders :
            LET t == loader[l]
                n == CeilDiv(SplitLen(t), batch_size)
            IN  Done(t) =>
                    /\ Len(t.yielded) = n
                    /\ n >= 1 => Sizes(t)[n] = SplitLen(t) - (n - 1) * batch_size
    /\ Len(Sizes_1000_32) = 32
    /\ Sizes_1000_32[32] = 8
    /\ Sizes_10_4 = <<4, 4, 2>>

\* A training pass over three examples in batches of two has ended.
C5_Witness ==
    /\ batch_size = 2
    /\ num_train = 3
    /\ \E l \in Loaders :
        /\ loader[l].train /\ Done(loader[l])
        /\ Len(loader[l].yielded) = 2

\* The least number of chunks of the given size that cover n elements
LeastCover(n, size) ==
    CHOOSE k \in 0..n : k * size >= n /\ (k = 0 \/ (k - 1) * size < n)

\* C6: len() of the tf.data loader is ceil(slice_length / batch_size) and is
\* the number of batches a full iteration of that loader yields, for every
\* slice length >= 0 and batch_size >= 1; it is 32 for 1000 examples in
\* batches of 32.
C6_LenIsBatchCount ==
    /\ batch_size >= 1 =>
        \A l \in Loaders :
            LET t == loader[l] IN
            t.kind = "tensor" =>
                /\ Len(t.tensors[1]) = SplitLen(t)
                /\ tensor_len(t) = LeastCover(SplitLen(t), batch_size)
                /\ Len(t.yielded) <= tensor_len(t)
                /\ Done(t) => Len(t.yielded) = tensor_len(t)
    /\ cardinality(1000, 32) = 32

\* A full tf.data training pass with a short last batch, beside a full
\* tf.data validation pass over an empty slice.
C6_Witness ==
    /\ batch_size = 2
    /\ num_train = 3
    /\ num_val = 0
    /\ \E l, m \in Loaders :
        /\ loader[l].kind = "tensor" /\ loader[l].train /\ Done(loader[l])
        /\ loader[m].kind = "tensor" /\ ~loader[m].train /\ Done(loader[m])

C8_ValidationDeterministic ==
    batch_size >= 1 =>
        \A l, m \in Loaders :
            LET u == loader[l]
                v == loader[m]
            IN  Alive(u) /\ Alive(v) /\ ~u.train /\ ~v.train =>
                /\ \A k \in 1..Min(Len(u.yielded), Len(v.yielded)) :
                      u.yielded[k] = v.yielded[k]
                /\ Done(u) /\ Done(v) => u.yielded = v.yielded

\* Two generator validation passes over two examples have both ended.
C8_Witness ==
    /\ batch_size >= 1
    /\ num_val = 2
    /\ \E l, m \in Loaders :
        /\ l # m
        /\ loader[l].kind = "manual" /\ ~loader[l].train /\ Done(loader[l])
        /\ loader[m].kind = "manual" /\ ~loader[m].train /\ Done(loader[m])

\* next() on whichever loader the handle holds
pull(l) == manual_next(l) \/ tensor_next(l)

\* C9: a new training pass draws a fresh permutation: with num_train >= 2,
\* at every moment at which a training pass has ended and a training pass is
\* about to start, the new pass can take any order, the order of the earlier
\* pass and every other one.  The two handles are interchangeable: the new
\* pass is the one on "q", the ended one the one on "p".
C9_TrainingReshuffles ==
    [](batch_size >= 1 /\ num_train >= 2 =>
        LET t == loader["q"]
            e == loader["p"]
        IN  /\ Alive(t) /\ t.train /\ t.st = "new"
            /\ Alive(e) /\ e.train /\ Done(e)
            => /\ \A p \in PermsOf(num_train) :
                    ENABLED (pull("q") /\ loader'["q"].indices = p)
               /\ \E p \in PermsOf(num_train) : p # e.indices)

\* Two training passes have ended and read the examples in different orders.
C9_Witness ==
    /\ batch_size >= 1
    /\ num_train >= 2
    /\ \E l, m \in Loaders :
        /\ Alive(loader[l]) /\ loader[l].train /\ Done(loader[l])
        /\ Alive(loader[m]) /\ loader[m].train /\ Done(loader[m])
        /\ loader[l].read # loader[m].read

\* A loader that has yielded nothing yet
Fresh(t) == t.st = "new" /\ t.yielded = <<>> /\ t.read = <<>> /\ t.res = "none"

\* One step of a loader within its sequence, from a to c
InOrder(a, c) ==
    /\ Alive(a) /\ c.kind = a.kind /\ c.train = a.train
    /\ \/ /\ a.st = "new" /\ c.st = "iterating"
          /\ SplitLen(a) > 0 /\ Len(c.yielded) = 1
       \/ /\ a.st = "new" /\ c.st = "exhausted"
          /\ SplitLen(a) = 0 /\ c.yielded = <<>>
       \/ /\ a.st = "iterating" /\ c.st = "iterating"
          /\ Len(a.read) < SplitLen(a) /\ Len(c.yielded) = Len(a.yielded) + 1
       \/ /\ a.st = "iterating" /\ c.st = "exhausted"
          /\ Len(a.read) = SplitLen(a) /\ c.yielded = a.yielded
       \/ /\ a.st = "exhausted" /\ c.st = "exhausted"
          /\ c.yielded = a.yielded

\* C10: a loader passes through not-yet-iterated, iterating, exhausted in
\* that order; it becomes exhausted on the pull that follows its last batch;
\* once exhausted it yields nothing more; and only a new call of
\* get_dataloader (or iter() on the tf.data loader) starts a new sequence,
\* which begins not-yet-iterated with nothing yielded.
C10_LoaderStates ==
    [][batch_size >= 1 =>
        \A l \in Loaders :
            \/ loader'[l] = loader[l]
            \/ /\ (\E train \in BOOLEAN : get_dataloader(l, train)) \/ tensor_iter(l)
               /\ Fresh(loader'[l]) \/ loader'[l].kind = "raised"
            \/ InOrder(loader[l], loader'[l])]_vars

\* Both handles hold generators of the same mode, each exhausted after a
\* pass of at least two batches.
C10_Witness ==
    /\ batch_size >= 1
    /\ \E l, m \in Loaders :
        /\ l # m
        /\ loader[l].kind = "manual" /\ loader[m].kind = "manual"
        /\ loader[l].train = loader[m].train
        /\ Done(loader[l]) /\ Done(loader[m])
        /\ Len(loader[l].yielded) >= 2 /\ Len(loader[m].yielded) >= 2

\* C11: a batch_size of 0 or below fails fast: with such a batch_size no
\* call of get_dataloader returns a loader, and no loader ends its pass
\* silently without a batch.
C11_NonPositiveBatchSizeFailsFast ==
    batch_size <= 0 =>
        \A l \in Loaders :
            /\ ~Alive(loader[l])
            /\ ~(loader[l].res = "StopIteration" /\ loader[l].yielded = <<>>)

\* C12 as stated: without a seed the draws are fresh on each construction, so
\* a second dataset constructed with the same arguments can have another X.
C12_FreshDrawsWithoutSeed ==
    num_train + num_val >= 1 =>
        ENABLED (construct2(w, noise) /\ data2'.X # X)

\* C12, amended: the constructor takes no seed and always draws from
\* PRNGKey(0): a second dataset constructed with the same arguments has the
\* same X and y, and X depends on the shape (num_train + num_val, len(w))
\* alone.
C12_SameArgumentsSameData ==
    data2.made =>
        /\ Len(data2.w) = Len(w) /\ data2.num_train + data2.num_val = num_train + num_val
              => data2.X = X
        /\ /\ data2.w = w /\ data2.b = b /\ data2.noise = noise
           /\ data2.num_train = num_train /\ data2.num_val = num_val
           => data2.X = X /\ data2.y = y

\* A second dataset of at least two examples was constructed with the
\* arguments of the first.
C12_Witness ==
    /\ data2.made
    /\ data2.w = w /\ data2.b = b /\ data2.noise = noise
    /\ data2.num_train = num_train /\ data2.num_val = num_val
    /\ Len(X) >= 2
    /\ noise = 1

\* C13: the constructed dataset has len(X) = len(y) = num_train + num_val and
\* X has len(w) columns, and this stays so while loaders are created and
\* iterated.
C13_DatasetShape ==
    /\ Len(X) = num_train + num_val
    /\ Len(y) = num_train + num_val
    /\ \A i \in 1..Len(X) : Len(X[i]) = Len(w)
    /\ \A i \in 1..Len(y) : Len(y[i]) = 1

\* A training pass over a dataset of three examples with one feature has
\* ended.
C13_Witness ==
    /\ Len(w) = 1
    /\ num_train = 2 /\ num_val = 1
    /\ batch_size >= 1
    /\ Done(loader["p"]) /\ loader["p"].train

\* The set of dataset indices t has read
ReadSet(t) == {t.read[k] : k \in 1..Len(t.read)}

\* C14: the two splits partition the dataset: a training pass reads only
\* indices of the prefix [0, num_train) and a validation pass only indices of
\* the suffix [num_train, num_train + num_val), no index is read in both
\* modes, and a full training pass with a full validation pass reads every
\* index of [0, num_train + num_val) exactly once; for both loader versions.
C14_SplitsPartitionDataset ==
    batch_size >= 1 =>
        \A l, m \in Loaders :
            LET t == loader[l]
                v == loader[m]
            IN  Alive(t) /\ t.train /\ Alive(v) /\ ~v.train =>
                    /\ ReadSet(t) \subseteq 0..(num_train - 1)
                    /\ ReadSet(v) \subseteq num_train..(num_train + num_val - 1)
                    /\ ReadSet(t) \cap ReadSet(v) = {}
                    /\ Done(t) => ReadSet(t) = 0..(num_train - 1)
                    /\ Done(v) => ReadSet(v) = num_train..(num_train + num_val - 1)
                    /\ Done(t) /\ Done(v) =>
                          \A i \in 0..(num_train + num_val - 1) :
                              Cardinality({k \in 1..Len(t.read \o v.read) :
                                              (t.read \o v.read)[k] = i}) = 1

\* A full training pass and a full validation pass, one of each loader
\* version, over two non-empty splits in batches of 1.
C14_Witness ==
    /\ batch_size = 1
    /\ num_train >= 2 /\ num_val >= 2
    /\ \E l, m \in Loaders :
        /\ loader[l].train /\ Done(loader[l])
        /\ ~loader[m].train /\ Done(loader[m])
        /\ loader[l].kind # loader[m].kind

\* The datasets constructed so far
Datasets ==
    {[w |-> w, b |-> b, noise |-> noise, X |-> X, y |-> y]}
        \cup (IF data2.made
              THEN {[w |-> data2.w, b |-> data2.b, noise |-> data2.noise,
                     X |-> data2.X, y |-> data2.y]}
              ELSE {})

\* C15: no dataset is ever produced whose X has a column count different
\* from the length of its w: every row of X of every dataset constructed has
\* exactly len(w) features.
C15_NoWidthMismatch ==
    \A d \in Datasets : \A i \in 1..Len(d.X) : Len(d.X[i]) = Len(d.w)

\* Two non-empty datasets with weight vectors of different lengths have been
\* constructed.
C15_Witness ==
    /\ data2.made
    /\ Len(data2.w) # Len(w)
    /\ Len(X) >= 1 /\ Len(data2.X) >= 1

\* X_i . w + b, summed feature by feature
RECURSIVE WeightedSum(_, _, _)
WeightedSum(xi, ww, k) ==
    IF k = 0 THEN 0 ELSE WeightedSum(xi, ww, k - 1) + xi[k] * ww[k]
Linear(xi, ww, bb) == WeightedSum(xi, ww, Len(ww)) + bb

\* C16: with noise 0, every label of a constructed dataset is exactly
\* X_i . w + b.
C16_NoNoiseLabelsExact ==
    \A d \in Datasets :
        d.noise = 0 =>
            /\ Len(d.y) = Len(d.X)
            /\ \A i \in 1..Len(d.X) : d.y[i] = <<Linear(d.X[i], d.w, d.b)>>

\* A dataset of several examples has been constructed with noise 0 next to
\* one with noise 1 whose labels differ from it, both with two features.
C16_Witness ==
    /\ data2.made
    /\ data2.noise = 0 /\ noise = 1
    /\ data2.w = w /\ Len(w) = 2
    /\ Len(data2.X) >= 2
    /\ data2.y # y

\* Dataset.shuffle with a buffer of 1 can emit the stored order only
Buffer1KeepsOrder == \A n \in 0..MaxTrain : shuffle(n, 1) = {Range(0, n)}

\* C17: a tf.data loader's shuffle buffer is the length of its slice in
\* training mode and 1 in validation mode; shuffling with a buffer of 1 emits
\* the elements in their stored order; so the validation batches are the rows
\* of X[num_train:], y[num_train:] in stored order.
C17_ShuffleBufferByMode ==
    /\ Buffer1KeepsOrder
    /\ \A l \in Loaders :
        LET t == loader[l] IN
        t.kind = "tensor" =>
            /\ Len(t.tensors[1]) = SplitLen(t)
            /\ t.buffer = (IF t.train THEN Len(t.tensors[1]) ELSE 1)
            /\ t.buffer = 1 /\ t.st # "new" =>
                  t.indices = Range(0, Len(t.tensors[1]))
            /\ ~t.train =>
                  /\ IsPrefix(t.read, Range(num_train, num_train + num_val))
                  /\ IsPrefix(XRows(t), SliceFrom(X, num_train))
                  /\ IsPrefix(YRows(t), SliceFrom(y, num_train))
                  /\ Done(t) => XRows(t) = SliceFrom(X, num_train)

\* A full tf.data validation pass of two batches, and a tf.data training
\* loader over three examples that was asked for its first batch.
C17_Witness ==
    \E l, m \in Loaders :
        /\ loader[l].kind = "tensor" /\ ~loader[l].train /\ Done(loader[l])
        /\ Len(loader[l].yielded) = 2
        /\ loader[m].kind = "tensor" /\ loader[m].train
        /\ loader[m].buffer = 3 /\ loader[m].st = "iterating"

\* The number of batches of a pass over the split of t
PassLength(t) == CeilDiv(SplitLen(t), batch_size)

\* C18: with batch_size >= 1 every pass ends: a consumer that keeps pulling
\* gets a batch from each of its first ceil(L / batch_size) pulls and
\* exhaustion from every pull after them (from the first one when L = 0),
\* the loader never holds more than ceil(L / batch_size) batches of a pass,
\* and every loader that exists is eventually exhausted.
C18_EveryPassTerminates ==
    /\ [](batch_size >= 1 /\ Alive(loader["p"]) =>
            /\ Len(loader["p"].yielded) <= PassLength(loader["p"])
            /\ Done(loader["p"]) =>
                  Len(loader["p"].yielded) = PassLength(loader["p"]))
    /\ [][batch_size >= 1 /\ pull("p") =>
            IF Len(loader["p"].yielded) = PassLength(loader["p"])
            THEN /\ Done(loader'["p"])
                 /\ loader'["p"].res = "StopIteration"
                 /\ loader'["p"].yielded = loader["p"].yielded
            ELSE /\ ~Done(loader'["p"])
                 /\ loader'["p"].res = "batch"
                 /\ Len(loader'["p"].yielded) = Len(loader["p"].yielded) + 1]_vars
    /\ (batch_size >= 1 /\ Alive(loader["p"])) ~> Done(loader["p"])

\* A generator pass over three examples in batches of 2 has ended after its
\* second batch.
C18_Witness ==
    /\ batch_size = 2
    /\ loader["p"].kind = "manual" /\ Done(loader["p"])
    /\ SplitLen(loader["p"]) = 3
    /\ Len(loader["p"].yielded) = 2
    /\ loader["q"].kind = "none"

\* C19: creating a loader and pulling from it, in either mode and for either
\* loader version, changes nothing but one handle: in every step X, y, w, b,
\* noise, num_train, num_val and batch_size keep their values and at most one
\* loader changes, so the order drawn by a shuffle is held by that loader
\* alone.
C19_LoadersLeaveDataUnchanged ==
    [][/\ UNCHANGED <<X, y, w, b, noise, num_train, num_val, batch_size>>
       /\ \E l \in Loaders : \A m \in Loaders \ {l} : loader'[m] = loader[m]]_vars

\* A generator training pass that read three examples in a shuffled order has
\* ended while a validation loader is being iterated, and the dataset is
\* still the constructed one.
C19_Witness ==
    /\ batch_size >= 1
    /\ \E l, m \in Loaders :
        /\ loader[l].kind = "manual" /\ loader[l].train /\ Done(loader[l])
        /\ loader[l].read = <<2, 0, 1>>
        /\ ~loader[m].train /\ loader[m].st = "iterating"
    /\ X = gen_X(num_train + num_val, Len(w))
    /\ y = gen_y(X, w, b, noise)

\* The one-dimensional tensor a holds the values of the tensor o
Elementwise(a, o) ==
    /\ a.cls \in {"Array", "ndarray"}
    /\ a.dtype # "object"
    /\ a.shape = o.shape
    /\ a.data = o.data

\* The keys of a mapping; no other value has keys
Keys(v) == IF v.cls = "dict" THEN {v.data[k][1] : k \in 1..Len(v.data)} ELSE {}

\* C20: save followed by load is a round trip: the loaded single tensor
\* equals x element-wise, the loaded list has the length of [x, y] and its
\* tensors equal x and y element-wise, and the loaded mapping has the keys of
\* mydict with tensors equal to x and y element-wise.
C20_SaveLoadRoundTrip ==
    /\ ns.x2.cls # "None" => Elementwise(ns.x2, ns.x)
    /\ ns.y2.cls # "None" => Elementwise(ns.y2, ns.y)
    /\ files["xy-files.npy"].cls # "None" =>
          /\ load("xy-files.npy").shape # <<>>
          /\ load("xy-files.npy").shape[1] = 2
    /\ ns.mydict2.cls # "None" =>
          /\ ns.mydict2.cls = "dict"
          /\ Keys(ns.mydict2) = Keys(ns.mydict)
          /\ \A k \in 1..Len(ns.mydict2.data) :
                Elementwise(ns.mydict2.data[k][2], ns.mydict.data[k][2])

\* C21: a checkpoint of the parameter mapping restores to the same mapping
\* (the same keys with the same arrays), and a clone of the same architecture
\* applied with the restored parameters to X gives an output equal
\* element-wise to Y.
C21_CheckpointRoundTrip ==
    /\ ns.cloned_params.made =>
          /\ DOMAIN ns.cloned_params.tree = DOMAIN ns.params.tree
          /\ \A g \in DOMAIN ns.params.tree :
                /\ ns.cloned_params.tree[g].kernel = ns.params.tree[g].kernel
                /\ ns.cloned_params.tree[g].bias = ns.params.tree[g].bias
    /\ ns.clone = ns.net /\ ns.Y_clone.res # "none" =>
          /\ ns.Y_clone.res = "ok"
          /\ Len(ns.Y_clone.val) = Len(ns.Y.val)
          /\ \A i \in 1..Len(ns.Y.val) : ns.Y_clone.val[i] = ns.Y.val[i]

\* A clone of an MLP with two inputs, two hidden units and two outputs has
\* been applied with the restored parameters and its output is not all zero.
C21_Witness ==
    /\ Len(ns.X[1]) = 2
    /\ ns.net = MLP(2, 2)
    /\ ns.clone = ns.net
    /\ ns.Y_clone.res = "ok"
    /\ \E i \in 1..2, j \in 1..2 : ns.Y_clone.val[i][j] # 0

\* The kernel shape each layer of arch asks for on input x, by layer name,
\* and the kernel shapes a parameter mapping holds
ModelShapes(arch, x) ==
    [g \in {arch[k].name : k \in 1..Len(arch)} |->
        LET k == CHOOSE k \in 1..Len(arch) : arch[k].name = g
        IN  <<in_width(arch, x, k), arch[k].features>>]
ShapesOf(params) ==
    [g \in DOMAIN params.tree |->
        <<Len(params.tree[g].kernel), Len(params.tree[g].bias)>>]

\* C22 as stated: the checkpoint restores without an architecture, and
\* applying a model whose parameter names or shapes differ from the restored
\* mapping ends in an error, never in an output.
C22_MismatchFailsAtApply ==
    /\ files["ckpt_dir/checkpoint_1"].cls # "None" => ENABLED restore_checkpoint
    /\ /\ ns.Y_clone.res # "none"
       /\ ModelShapes(ns.clone, ns.X) # ShapesOf(ns.cloned_params)
       => ns.Y_clone.res \notin {"none", "ok"} /\ ns.Y_clone.val = <<>>

\* C22, amended: the checkpoint restores without an architecture; apply ends
\* in an error, with no output, exactly when some layer of the model finds no
\* group of its name in the restored mapping or finds one of another shape;
\* groups of the mapping that no layer of the model names are not looked at.
C22_MissingOrMisshapenFailsAtApply ==
    /\ files["ckpt_dir/checkpoint_1"].cls # "None" => ENABLED restore_checkpoint
    /\ ns.Y_clone.res # "none" =>
          LET need == ModelShapes(ns.clone, ns.X)
              have == ShapesOf(ns.cloned_params)
              fits == \A g \in DOMAIN need : g \in DOMAIN have /\ have[g] = need[g]
          IN  /\ fits <=> ns.Y_clone.res = "ok"
              /\ ~fits =>
                    /\ ns.Y_clone.res \in {"ScopeParamNotFoundError",
                                            "ScopeParamShapeError"}
                    /\ ns.Y_clone.val = <<>>
              /\ (\E g \in DOMAIN need : g \notin DOMAIN have) /\
                 (\A g \in DOMAIN need \cap DOMAIN have : have[g] = need[g])
                    => ns.Y_clone.res = "ScopeParamNotFoundError"

\* A module with the hidden layer alone has been applied with the parameters
\* restored from an MLP's checkpoint and gave an output.
C22_Witness ==
    /\ ns.net = MLP(2, 1)
    /\ ns.clone = <<Dense("hidden", 2)>>
    /\ ns.cloned_params.made
    /\ ns.Y_clone.res = "ok"
    /\ Len(ns.Y_clone.val) = 2

\* C23: within every batch features and labels are aligned: row k of the
\* features and row k of the labels are X and y at the same dataset index,
\* the k-th index the pass read, in both modes, for both loader versions and
\* whatever the shuffle drew.
C23_FeaturesAndLabelsAligned ==
    batch_size >= 1 =>
        \A l \in Loaders :
            LET t == loader[l]
                xr == XRows(t)
                yr == YRows(t)
            IN
            Alive(t) =>
                /\ Len(xr) = Len(t.read)
                /\ Len(yr) = Len(t.read)
                /\ \A k \in 1..Len(t.read) :
                      /\ xr[k] = X[t.read[k] + 1]
                      /\ yr[k] = y[t.read[k] + 1]
                /\ \A n \in 1..Len(t.yielded) :
                      Len(t.yielded[n][1]) = Len(t.yielded[n][2])

\* A generator training pass and a tf.data training pass over three examples
\* with three different labels have both ended, each in a shuffled order.
C23_Witness ==
    /\ batch_size = 2
    /\ num_train = 3
    /\ Cardinality({y[1], y[2], y[3]}) = 3
    /\ \E l, m \in Loaders :
        /\ loader[l].kind = "manual" /\ loader[l].train /\ Done(loader[l])
        /\ loader[l].read = <<1, 0, 2>>
        /\ loader[m].kind = "tensor" /\ loader[m].train /\ Done(loader[m])
        /\ loader[m].read = <<2, 1, 0>>

\* The batches a validation loader yields when it is iterated alone
AloneVal ==
    [k \in 1..CeilDiv(num_val, batch_size) |->
        <<Slice(X, num_train + (k - 1) * batch_size,
                Min(num_train + k * batch_size, num_train + num_val)),
          Slice(y, num_train + (k - 1) * batch_size,
                Min(num_train + k * batch_size, num_train + num_val))>>]

\* C24: loaders are independent: whenever two loaders over the dataset exist,
\* in whatever order they were pulled, each has read batch_size indices of its
\* own split per batch (the last batch the rest), none twice, and its rows are
\* X and y at those indices; a pass that has ended has read its whole split;
\* and the validation loader's batches are those it yields when iterated
\* alone.
C24_LoadersIndependent ==
    batch_size >= 1 =>
        \A l, m \in Loaders :
            LET t == loader[l] IN
            l # m /\ Alive(t) /\ Alive(loader[m]) =>
                /\ Len(t.read) = Min(Len(t.yielded) * batch_size, SplitLen(t))
                /\ \A j, k \in 1..Len(t.read) : t.read[j] = t.read[k] => j = k
                /\ \A k \in 1..Len(t.read) :
                      t.read[k] \in (IF t.train THEN 0..(num_train - 1)
                                     ELSE num_train..(num_train + num_val - 1))
                /\ XRows(t) = Take(X, t.read)
                /\ YRows(t) = Take(y, t.read)
                /\ Done(t) => Len(t.read) = SplitLen(t)
                /\ ~t.train =>
                      /\ IsPrefix(t.yielded, AloneVal)
                      /\ Done(t) => t.yielded = AloneVal

\* Two generator loaders are both in the middle of their passes, at
\* different offsets and each over its own list of indices.
C24_Witness ==
    /\ batch_size = 1
    /\ num_train = 3 /\ num_val = 2
    /\ loader["p"].kind = "manual" /\ loader["q"].kind = "manual"
    /\ loader["p"].train
    /\ loader["p"].st = "iterating" /\ loader["q"].st = "iterating"
    /\ Len(loader["p"].yielded) = 2 /\ Len(loader["q"].yielded) = 1
    /\ loader["p"].indices # loader["q"].indices

\* C25: the instance was created before either registration; once a
\* get_dataloader is registered the instance can call it, the registration of
\* the tf.data version replaces that of the generator version for good, and
\* from then on every loader the instance creates is made by the tf.data
\* version (a tf.data loader, or the error tf.data raises), never a generator.
C25_LaterRegistrationReplaces ==
    /\ [](registered # "none" =>
            \A l \in Loaders, train \in BOOLEAN : ENABLED get_dataloader(l, train))
    /\ [][/\ registered = "tensor" => registered' = "tensor"
          /\ \A l \in Loaders :
                loader'[l] # loader[l] /\ loader'[l].st = "new" =>
                    /\ registered = "manual" => loader'[l].kind = "manual"
                    /\ registered = "tensor" =>
                          loader'[l].kind \in {"tensor", "raised"}]_vars

\* After the tf.data version was registered the instance made a tf.data
\* loader, while a generator made before that registration is still
\* iterating.
C25_Witness ==
    /\ registered = "tensor"
    /\ loader["p"].kind = "manual" /\ loader["p"].st = "iterating"
    /\ loader["q"].kind = "tensor" /\ loader["q"].st = "new"

Column(rows, j) == [i \in 1..Len(rows) |-> rows[i][j]]

\* C27: MyDense(in_units, units) has a weight of shape (in_units, units) and
\* a bias of units zeros after init, and for an input of r rows its output
\* has shape (r, units) with every element >= 0: the linear value
\* X . weight + bias where that is positive, and 0 where it is not.
C27_MyDenseForward ==
    /\ nb.params.made =>
          /\ Len(nb.params.weight) = nb.dense.in_units
          /\ \A i \in 1..Len(nb.params.weight) :
                Len(nb.params.weight[i]) = nb.dense.units
          /\ nb.params.bias = [j \in 1..nb.dense.units |-> 0]
    /\ nb.dense_out.made =>
          /\ Len(nb.dense_out.rows) = Len(nb.dense_in.rows)
          /\ \A i \in 1..Len(nb.dense_out.rows) :
                /\ Len(nb.dense_out.rows[i]) = nb.dense.units
                /\ \A j \in 1..nb.dense.units :
                      LET lin == Dot(nb.dense_in.rows[i],
                                     Column(nb.params.weight, j))
                                 + nb.params.bias[j]
                      IN  /\ nb.dense_out.rows[i][j] >= 0
                          /\ lin > 0 => nb.dense_out.rows[i][j] = lin
                          /\ lin <= 0 => nb.dense_out.rows[i][j] = 0

\* A layer with two inputs and two units was applied to two rows, and its
\* output has a positive element and an element cut to 0 from a negative
\* linear value.
C27_Witness ==
    /\ nb.dense_out.made
    /\ nb.dense = [in_units |-> 2, units |-> 2]
    /\ Len(nb.dense_in.rows) = 2
    /\ \E i, j \in 1..2 : nb.dense_out.rows[i][j] > 0
    /\ \E i, j \in 1..2 :
          Dot(nb.dense_in.rows[i], Column(nb.params.weight, j)) < 0

\* C28: every weight made by MyInit is 0 or has an absolute value between 5
\* and 10: the draw d from [-10, 10) of its position is kept when |d| >= 5
\* and replaced by 0 when |d| < 5, and the result has the requested shape.
C28_MyInitKeepsLargeDraws ==
    nb.kernel.made =>
        LET d == uniform(nb.init_key, nb.init_shape, 0 - 10 * Unit, 10 * Unit)
            k == nb.kernel.rows
        IN  /\ Len(k) = nb.init_shape[1]
            /\ \A i \in 1..Len(k) :
                  /\ Len(k[i]) = nb.init_shape[2]
                  /\ \A j \in 1..Len(k[i]) :
                        /\ d[i][j] \in (0 - 10 * Unit)..(10 * Unit - 1)
                        /\ \/ d[i][j] >= 5 * Unit
                           \/ d[i][j] <= 0 - 5 * Unit
                           => k[i][j] = d[i][j]
                        /\ /\ d[i][j] < 5 * Unit
                           /\ d[i][j] > 0 - 5 * Unit
                           => k[i][j] = 0
                        /\ \/ k[i][j] = 0
                           \/ k[i][j] \in (5 * Unit)..(10 * Unit)
                           \/ k[i][j] \in (0 - 10 * Unit)..(0 - 5 * Unit)

\* A 2 x 2 kernel was made that holds a kept draw of exactly 5, a kept
\* negative draw and a 0 that replaced a nonzero draw.
C28_Witness ==
    /\ nb.kernel.made
    /\ nb.init_shape = <<2, 2>>
    /\ \E i, j \in 1..2 : nb.kernel.rows[i][j] = 5 * Unit
    /\ \E i, j \in 1..2 : nb.kernel.rows[i][j] < 0
    /\ \E i, j \in 1..2 :
          /\ nb.kernel.rows[i][j] = 0
          /\ uniform(nb.init_key, nb.init_shape, 0 - 10 * Unit, 10 * Unit)[i][j] # 0

\* relu of every element of a matrix
ReluAll(m) == [i \in 1..Len(m) |-> [j \in 1..Len(m[i]) |-> relu(m[i][j])]]

\* The parameters the Dense position k of the net reads
PositionReads(k) == nb.net_params.tree[Sequential(nb.layers)[k].name]

\* C29: when one layer object stands at two positions of a sequential net
\* of four Dense positions, the initialised parameter mapping has 3 groups
\* and not 4, both positions read the same parameters, also after a change
\* of these parameters, and the output is the one of a net that uses the
\* one group twice; four separate layers give 4 groups.
C29_SharedLayerTied ==
    nb.net_params.made =>
        LET t == nb.net_params.tree
        IN  /\ nb.layers[2].id = nb.layers[3].id =>
                  /\ Cardinality(DOMAIN t) = 3
                  /\ DOMAIN t = {"layers_0", "layers_2", "layers_6"}
                  /\ PositionReads(2) = PositionReads(3)
                  /\ nb.net_out.res # "none" =>
                        LET h1 == ReluAll(dense_forward(nb.net_in,
                                     t["layers_0"].kernel, t["layers_0"].bias))
                            h2 == ReluAll(dense_forward(h1,
                                     t["layers_2"].kernel, t["layers_2"].bias))
                            h3 == ReluAll(dense_forward(h2,
                                     t["layers_2"].kernel, t["layers_2"].bias))
                        IN  /\ nb.net_out.res = "ok"
                            /\ nb.net_out.val =
                                  dense_forward(h3, t["layers_6"].kernel,
                                                t["layers_6"].bias)
            /\ nb.layers[2].id # nb.layers[3].id =>
                  Cardinality(DOMAIN t) = 4

\* The shared group of a tied net was changed after init, the net was
\* applied, and with the parameters init made the output would be another.
C29_Witness ==
    /\ nb.net_params.made
    /\ nb.layers[2].id = nb.layers[3].id
    /\ nb.layers[2].features = 2
    /\ nb.net_out.res = "ok"
    /\ \E key \in Seeds :
          LET p == init(Sequential(nb.layers), key, nb.net_in)
          IN  /\ p.tree["layers_0"] = nb.net_params.tree["layers_0"]
              /\ p.tree["layers_6"] = nb.net_params.tree["layers_6"]
              /\ p.tree["layers_2"] # nb.net_params.tree["layers_2"]
              /\ apply(Sequential(nb.layers), p, nb.net_in).val # nb.net_out.val
====
